---------------------------- MODULE Spec2Model ----------------------------
(***************************************************************************)
(* A model of the two scripts of the repository:                           *)
(*                                                                         *)
(*   src/X_post_forward.py  the post-relay loop: get_tweets,               *)
(*                          send_to_telegram, main (polls every 300 s)     *)
(*   src/news_bot.py        the single-shot digest: fetch_ai_news,         *)
(*                          get_ai_news, send_telegram_message, main       *)
(*                                                                         *)
(* Each script is its own process (each has its own __main__ guard), so a  *)
(* behaviour runs one of them: Init chooses `program`.  The collaborators  *)
(* (the timeline API, the news API, the Telegram API) are the environment: *)
(* their replies are drawn from small sets with \E.                        *)
(*                                                                         *)
(* The relay is modelled from the entry of main().  As written, line 27 of *)
(* X_post_forward.py calls os.getenc, which does not exist, so importing   *)
(* the script raises AttributeError before main() is reached; the model    *)
(* describes the functions as they are defined.                            *)
(***************************************************************************)
EXTENDS Integers, Sequences, FiniteSets, TLC

(***************************************************************************)
(* Bounds of the model.                                                    *)
(***************************************************************************)
\* tweets the monitored account posts during a behaviour; ids are 1..MaxId
MaxId == 3
\* successful sends of one tweet that are counted (guards the counter)
MaxSends == 2
\* articles in one reply of the news API
MaxArticles == 2
\* sentences of a text handed to summarize_text on its own
MaxSentences == 3
\* words of a content handed to calculate_reading_time on its own
MaxWords == 402
\* articles handed to format_news_message on its own
MaxDigest == 7

(***************************************************************************)
(* Program constants.                                                      *)
(***************************************************************************)
\* X_post_forward.py:39  last_tweet_id = None; tweet ids are positive, and
\* since_id=None asks for the most recent tweets, as since_id=0 would
None == 0
\* X_post_forward.py:47  count=10.  A batch is cut to the Count newest tweets
\* only when more than Count tweets are newer than since_id, which takes more
\* tweets than MaxId allows: within the bounds every fetch returns all of them.
Count == 10
\* news_bot.py:100  articles[:5]
MaxEntries == 5
\* news_bot.py:70  word_count / 200
WordsPerMinute == 200
\* news_bot.py:107  summary[:150]
SummaryChars == 150
\* news_bot.py:53  num_sentences=2
DefaultSentences == 2

Ids == 1..MaxId

Min(a, b) == IF a <= b THEN a ELSE b

VARIABLES
    program,        \* which script this process runs
    pc,             \* the position of main()
    unhandled,      \* the function an unhandled exception escaped from, or "none"
    \* ---- X_post_forward.py
    published,      \* the monitored timeline holds the tweets 1..published
    last_tweet_id,  \* the module global of line 39
    tweets,         \* main's local: the batch get_tweets returned, newest first
    idx,            \* position of main's for loop in reversed(tweets)
    outcome,        \* per tweet: "unfetched", "fetched", "Sent" or "Error"
    sentCount,      \* per tweet: how many send requests the destination accepted
    attempts,       \* the tweets handed to send_to_telegram in this cycle, in order
    sentMedia,      \* the media list of the tweet of the last send_to_telegram call
    issued,         \* the requests that call issued to the Telegram API, in order
    request,        \* the last request issued to the Telegram API
    lastResp,       \* the Telegram API's reply to that request
    ret,            \* what the last delivery call returned to its caller
    \* ---- news_bot.py
    data,           \* data['articles'] of the news API's reply
    news_articles,  \* what fetch_ai_news returned
    news_message,   \* what get_ai_news returned
    sendRequests,   \* sendMessage requests issued by send_telegram_message
    fetchRequests,  \* requests issued to the news API by fetch_ai_news
    \* ---- configuration (module globals, never assigned after import)
    allowed_sources, \* news_bot.py: ALLOWED_SOURCES
    keywords,       \* news_bot.py: KEYWORDS
    missing,        \* the environment variables os.getenv found unset (None)
    \* ---- a call of one of the pure functions of news_bot.py
    args,           \* the arguments of the call
    result          \* what the call returned

relayVars == <<published, last_tweet_id, tweets, idx, outcome, sentCount, attempts,
               sentMedia, issued>>
digestVars == <<data, news_articles, news_message, sendRequests, fetchRequests>>
configVars == <<allowed_sources, keywords, missing>>
callVars == <<args, result>>
vars == <<program, pc, unhandled, relayVars, request, lastResp, ret, digestVars,
          configVars, callVars>>

(***************************************************************************)
(* The Telegram API as both scripts see it.                                *)
(***************************************************************************)
\* the replies of the destination to one send request
DestResponses == {"ok", "chat not found", "not enough rights", "429", "timeout"}

NoRequest == [method |-> "none", photo |-> 0]

(***************************************************************************)
(* X_post_forward.py                                                       *)
(***************************************************************************)

\* twitter_api.user_timeline(since_id=..., count=...): the tweets of the
\* timeline strictly newer than since_id, newest first, at most count of them
user_timeline(since_id, count) ==
    [j \in 1..Min(published - since_id, count) |-> published - j + 1]

\* a replayed reply of the source: a non-empty run of tweets that are already on
\* the timeline, newest first, whatever since_id was
ReplayedBatches ==
    { [j \in 1..(hi - lo + 1) |-> hi - j + 1] : lo \in 1..published, hi \in 1..published }
    \ { <<>> }

\* media lists of a tweet (tweet.extended_entities['media']); <<>> stands for a
\* tweet with no 'media' in tweet.entities
MediaLists ==
    { <<>>, <<"photo">>, <<"video">>, <<"video", "photo">>, <<"photo", "photo">> }

\* lines 48-49: the global after a fetch that returned `batch`
CursorResetOnEmpty(batch, cursor) ==
    IF batch # <<>> THEN batch[1] ELSE None
CursorNeverAdvanced(batch, cursor) == cursor
CursorAfterFetch(batch, cursor) ==
    IF batch # <<>> THEN batch[1] ELSE cursor

\* line 77: reversed(tweets)
NotReversed(s) == s
reversed(s) == [j \in 1..Len(s) |-> s[Len(s) - j + 1]]

\* lines 71-72: what send_to_telegram does with an exception of the Telegram
\* client: `except Exception` logs it and the function returns None
SendErrorEscapes(resp) == IF resp = "ok" THEN "returned" ELSE "raised"
send_to_telegram_exit(resp) == "returned"

\* lines 60-69: the request send_to_telegram issues for a tweet with `media`:
\* send_photo with the first photo, else send_message
FirstPhoto(media) ==
    IF \E k \in 1..Len(media) : media[k] = "photo"
    THEN CHOOSE k \in 1..Len(media) :
            /\ media[k] = "photo"
            /\ \A m \in 1..(k - 1) : media[m] # "photo"
    ELSE 0

RECURSIVE SendsEveryPhoto(_, _)
RECURSIVE media_loop(_, _)

\* the loop without the `return` of line 66
SendsEveryPhoto(media, k) ==
    IF k > Len(media)
    THEN << [method |-> "send_message", photo |-> 0] >>
    ELSE IF media[k] = "photo"
         THEN << [method |-> "send_photo", photo |-> k] >> \o SendsEveryPhoto(media, k + 1)
         ELSE SendsEveryPhoto(media, k + 1)

\* lines 60-69: the requests send_to_telegram awaits, from element k of the
\* media list on, when none of them raises: send_photo and `return` at the
\* first photo, send_message when the loop ends (or was never entered)
media_loop(media, k) ==
    IF k > Len(media)
    THEN << [method |-> "send_message", photo |-> 0] >>
    ELSE IF media[k] = "photo"
         THEN << [method |-> "send_photo", photo |-> k] >>
         ELSE media_loop(media, k + 1)

\* the requests of one call: an await that raises is the last one of the call
RequestsIssued(media, resp) ==
    IF resp = "ok" THEN media_loop(media, 1) ELSE << media_loop(media, 1)[1] >>

TelegramRequest(media) ==
    media_loop(media, 1)[Len(media_loop(media, 1))]

\* the account posts a tweet
Publish ==
    /\ program = "X_post_forward"
    /\ published < MaxId
    /\ published' = published + 1
    /\ UNCHANGED <<program, pc, unhandled, last_tweet_id, tweets, idx, outcome,
                   sentCount, attempts, sentMedia, issued, request, lastResp, ret, digestVars,
                   configVars, callVars>>

\* lines 76, 41-50: main calls get_tweets and the timeline API replies `batch`
get_tweets_returns(batch) ==
    /\ program = "X_post_forward"
    /\ pc = "get_tweets"
    /\ last_tweet_id' = CursorAfterFetch(batch, last_tweet_id)
    /\ tweets' = batch
    /\ outcome' = [i \in Ids |->
                     IF (\E k \in 1..Len(batch) : batch[k] = i) /\ outcome[i] = "unfetched"
                     THEN "fetched" ELSE outcome[i]]
    /\ attempts' = <<>>
    /\ idx' = 1
    /\ pc' = "for"
    /\ UNCHANGED <<program, unhandled, published, sentCount, sentMedia, issued,
                   request, lastResp, ret, digestVars,
                   configVars, callVars>>

\* lines 76, 51-53: the timeline API raises; get_tweets logs and returns []
get_tweets_raises ==
    /\ program = "X_post_forward"
    /\ pc = "get_tweets"
    /\ tweets' = <<>>
    /\ attempts' = <<>>
    /\ idx' = 1
    /\ pc' = "for"
    /\ UNCHANGED <<program, unhandled, published, last_tweet_id, outcome, sentCount,
                   sentMedia, issued, request, lastResp, ret, digestVars,
                   configVars, callVars>>

\* lines 77-78, 55-72: one pass of main's for loop: send_to_telegram(tweet) for
\* the next tweet of reversed(tweets), whose media list is `media`, with the
\* Telegram API replying `resp`
send_to_telegram(media, resp) ==
    /\ program = "X_post_forward"
    /\ pc = "for"
    /\ idx <= Len(tweets)
    /\ LET tweet == reversed(tweets)[idx] IN
        /\ sentCount[tweet] < MaxSends
        /\ attempts' = Append(attempts, tweet)
        /\ sentMedia' = media
        /\ issued' = RequestsIssued(media, resp)
        /\ request' = issued'[Len(issued')]
        /\ lastResp' = resp
        /\ IF resp = "ok"
           THEN /\ sentCount' = [sentCount EXCEPT ![tweet] = @ + 1]
                /\ outcome' = [outcome EXCEPT ![tweet] = "Sent"]
           ELSE /\ sentCount' = sentCount
                /\ outcome' = [outcome EXCEPT ![tweet] =
                                 IF @ = "Sent" THEN "Sent" ELSE "Error"]
        /\ IF send_to_telegram_exit(resp) = "returned"
           THEN /\ ret' = "None"
                /\ idx' = idx + 1
                /\ pc' = "for"
                /\ unhandled' = unhandled
           ELSE \* main has no handler of its own: the exception ends the process
                /\ ret' = "raised"
                /\ idx' = idx
                /\ pc' = "crashed"
                /\ unhandled' = "send_to_telegram"
    /\ UNCHANGED <<program, published, last_tweet_id, tweets, digestVars,
                   configVars, callVars>>

\* lines 77-81: the for loop is exhausted; main sleeps for 300 s
main_sleep ==
    /\ program = "X_post_forward"
    /\ pc = "for"
    /\ idx > Len(tweets)
    /\ pc' = "sleep"
    /\ UNCHANGED <<program, unhandled, relayVars, request, lastResp, ret, digestVars,
                   configVars, callVars>>

\* lines 75, 81: the sleep is over; `while True` starts the next cycle
main_wake ==
    /\ program = "X_post_forward"
    /\ pc = "sleep"
    /\ pc' = "get_tweets"
    /\ UNCHANGED <<program, unhandled, relayVars, request, lastResp, ret, digestVars,
                   configVars, callVars>>

(***************************************************************************)
(* news_bot.py                                                             *)
(***************************************************************************)

\* A Python str is modelled as the sequence of its characters.
UpperCase ==
    <<"A", "B", "C", "D", "E", "F", "G", "H", "I", "J", "K", "L", "M">> \o
    <<"N", "O", "P", "Q", "R", "S", "T", "U", "V", "W", "X", "Y", "Z">>
LowerCase ==
    <<"a", "b", "c", "d", "e", "f", "g", "h", "i", "j", "k", "l", "m">> \o
    <<"n", "o", "p", "q", "r", "s", "t", "u", "v", "w", "x", "y", "z">>

\* str.lower() on the letters that have a lower-case form
LowerOf ==
    [c \in {UpperCase[k] : k \in 1..Len(UpperCase)} |->
        LowerCase[CHOOSE k \in 1..Len(UpperCase) : UpperCase[k] = c]]

\* str.lower() on one character
LowerChar(c) == IF c \in DOMAIN LowerOf THEN LowerOf[c] ELSE c

\* str.lower()
lower(s) == [j \in 1..Len(s) |-> LowerChar(s[j])]

\* Python's `sub in s` on two str
StrIn(sub, s) ==
    \E p \in 0..(Len(s) - Len(sub)) : SubSeq(s, p + 1, p + Len(sub)) = sub

\* line 26
ALLOWED_SOURCES ==
    <<"Forbes", "TechCrunch", "Wired", "MIT Technology Review", "VentureBeat">>

\* line 27
KEYWORDS ==
    << <<"A", "I">>,
       <<"a", "r", "t", "i", "f", "i", "c", "i", "a", "l", " ", "i", "n", "t", "e", "l", "l", "i", "g", "e", "n", "c", "e">>,
       <<"m", "a", "c", "h", "i", "n", "e", " ", "l", "e", "a", "r", "n", "i", "n", "g">>,
       <<"d", "e", "e", "p", " ", "l", "e", "a", "r", "n", "i", "n", "g">>,
       <<"n", "e", "u", "r", "a", "l", " ", "n", "e", "t", "w", "o", "r", "k", "s">>,
       <<"p", "r", "o", "m", "p", "t", " ", "e", "n", "g", "i", "n", "e", "e", "r", "i", "n", "g">> >>

\* the titles and source names the news API's articles are drawn from
Titles ==
    { <<"N", "e", "w", " ", "A", "I", " ", "c", "h", "i", "p", " ", "u", "n", "v", "e", "i", "l", "e", "d">>,
      <<"Q", "u", "a", "r", "t", "e", "r", "l", "y", " ", "e", "a", "r", "n", "i", "n", "g", "s">>,
      <<"A", "i", "r", "l", "i", "n", "e", " ", "f", "a", "r", "e", "s", " ", "r", "i", "s", "e">>,
      <<"D", "E", "E", "P", " ", "L", "E", "A", "R", "N", "I", "N", "G", " ", "w", "i", "n", "s">>,
      <<"a", "i">>,
      <<>> }

SourceNames == {"Forbes", "forbes", "RandomBlog", "VentureBeat"}

\* article['content'] of the articles of a reply, as nlp() splits it
ReplyContents ==
    { << << <<"t", "h", "e">>, <<"a", "i">>, <<".">> >>,
         << <<"m", "l">>, <<"m", "l">>, <<".">> >> >> }

Articles == [source : SourceNames, title : Titles, content : ReplyContents]

\* data['articles'] of one reply: up to MaxArticles articles
ArticleLists == UNION { [1..n -> Articles] : n \in 0..MaxArticles }

\* the replies of the news API to the request of line 35
NewsReplies == {"articles", "no articles key", "http error", "invalid json",
                "network exception"}

\* lines 41-42: the condition of the list comprehension
KeepsCaseSensitive(article) ==
    /\ \E s \in 1..Len(allowed_sources) : allowed_sources[s] = article.source
    /\ \E k \in 1..Len(keywords) : StrIn(keywords[k], article.title)
article_kept(article) ==
    /\ \E s \in 1..Len(allowed_sources) : allowed_sources[s] = article.source
    /\ \E k \in 1..Len(keywords) : StrIn(lower(keywords[k]), lower(article.title))

\* lines 39-43: the list comprehension
filtered_articles(articles) == SelectSeq(articles, article_kept)

\* lines 34-51: what fetch_ai_news does with the news API's reply.  There is no
\* try in the function: an exception of session.get or of response.json()
\* leaves it.
fetch_ai_news_result(reply, articles) ==
    CASE reply = "articles" ->
            [kind |-> "list", articles |-> filtered_articles(articles)]
      [] reply \in {"no articles key", "http error"} ->
            [kind |-> "None", articles |-> <<>>]
      [] OTHER ->
            [kind |-> "raised", articles |-> <<>>]

(***************************************************************************)
(* summarize_text.  nlp() is spaCy's pipeline: the model takes its output    *)
(* as given.  A text is the sequence of its sentences (doc.sents), a         *)
(* sentence the sequence of its tokens, a token the str token.text; the      *)
(* characters of a sentence (sent.text) are its tokens with one blank        *)
(* between them.                                                            *)
(***************************************************************************)
\* token.is_stop and token.is_punct
STOP_WORDS == { <<"t", "h", "e">> }
PUNCTUATION == { <<".">> }
is_stop(token) == lower(token) \in STOP_WORDS
is_punct(token) == token \in PUNCTUATION

\* sep.join(strs)
RECURSIVE join(_, _)
join(sep, strs) ==
    IF strs = <<>> THEN <<>>
    ELSE IF Len(strs) = 1 THEN strs[1]
    ELSE strs[1] \o sep \o join(sep, Tail(strs))

\* sent.text
SentText(sentence) == join(<<" ">>, sentence)

\* all the tokens of the doc, in order
RECURSIVE DocTokens(_)
DocTokens(text) ==
    IF text = <<>> THEN <<>> ELSE text[1] \o DocTokens(Tail(text))

NotStopNotPunct(token) == ~is_stop(token) /\ ~is_punct(token)

\* line 59
summary_words(text) ==
    LET kept == SelectSeq(DocTokens(text), NotStopNotPunct)
    IN  [j \in 1..Len(kept) |-> lower(kept[j])]

\* line 60, with .get(word, 0): words.count(word), 0 for a word not in words
word_freq(text, word) ==
    LET words == summary_words(text)
    IN  Cardinality({j \in 1..Len(words) : words[j] = word})

\* line 62: the value of one item of sentence_scores
sentence_score(text, sentence) ==
    LET RECURSIVE Sum(_)
        Sum(k) == IF k = 0 THEN 0
                  ELSE Sum(k - 1) + word_freq(text, lower(sentence[k]))
    IN  Sum(Len(sentence))

\* line 62: the keys of the dict sentence_scores, in insertion order: a
\* sentence that occurs again only overwrites its item
RECURSIVE dict_keys(_)
dict_keys(sentences) ==
    IF sentences = <<>> THEN <<>>
    ELSE LET before == dict_keys(SubSeq(sentences, 1, Len(sentences) - 1))
             last == sentences[Len(sentences)]
         IN  IF \E k \in 1..Len(before) : before[k] = last
             THEN before
             ELSE Append(before, last)

\* line 63: sorted(keys, key=..., reverse=True): descending, and stable (equal
\* keys stay in their order)
RECURSIVE InsertDescending(_, _, _)
InsertDescending(x, sorted, text) ==
    IF sorted = <<>> THEN <<x>>
    ELSE IF sentence_score(text, Head(sorted)) >= sentence_score(text, x)
         THEN <<Head(sorted)>> \o InsertDescending(x, Tail(sorted), text)
         ELSE <<x>> \o sorted

RECURSIVE sorted_reverse(_, _)
sorted_reverse(keys, text) ==
    IF keys = <<>> THEN <<>>
    ELSE InsertDescending(keys[Len(keys)],
                          sorted_reverse(SubSeq(keys, 1, Len(keys) - 1), text), text)

\* lines 63-64: the sentences of the summary, in the order they are joined
summary_sentences(text, num_sentences) ==
    LET ranked == sorted_reverse(dict_keys(text), text)
    IN  SubSeq(ranked, 1, Min(Len(ranked), num_sentences))

\* lines 53-65
summarize_text(text, num_sentences) ==
    LET chosen == summary_sentences(text, num_sentences)
    IN  join(<<" ">>, [k \in 1..Len(chosen) |-> SentText(chosen[k])])

\* the sentences and texts summarize_text is called with
Sentences ==
    { << <<"t", "h", "e">>, <<"a", "i">>, <<".">> >>,
      << <<"m", "l">>, <<"m", "l">>, <<".">> >>,
      << <<"A", "I">>, <<"m", "l">>, <<".">> >>,
      << <<"t", "h", "e">>, <<".">> >> }

Texts == UNION { [1..n -> Sentences] : n \in 0..MaxSentences }

(***************************************************************************)
(* calculate_reading_time                                                  *)
(***************************************************************************)
NotAngleBracket(char) == char \notin {"<", ">"}

\* line 68
clean_content(content) == SelectSeq(content, NotAngleBracket)

\* line 69: len(s.split()): the maximal runs of characters that are not blank
split_len(s) ==
    Cardinality({ j \in 1..Len(s) : s[j] # " " /\ (j = 1 \/ s[j - 1] = " ") })

\* line 70: math.ceil(word_count / 200)
ReadingTimeFloor(word_count) == word_count \div WordsPerMinute
reading_time_minutes(word_count) ==
    (word_count + WordsPerMinute - 1) \div WordsPerMinute

\* lines 67-77; n is the number an f-string puts before " mins"
calculate_reading_time(content) ==
    LET minutes == reading_time_minutes(split_len(clean_content(content)))
    IN  IF minutes < 1 THEN [n |-> 0, text |-> "< 1 min"]
        ELSE IF minutes = 1 THEN [n |-> 0, text |-> "1 min"]
        ELSE [n |-> minutes, text |-> "{n} mins"]

\* n copies of the str piece
Repeat(piece, n) ==
    [j \in 1..(n * Len(piece)) |-> piece[((j - 1) % Len(piece)) + 1]]

\* the contents calculate_reading_time is called with: up to MaxWords words,
\* one or two blanks apart, after nothing, a lone "<" or a tag
Contents ==
    { prefix \o Repeat(word, n) :
        prefix \in { <<>>, <<"<", " ">>, <<"<", "b", ">", " ">> },
        word \in { <<"a", "b", " ">>, <<"a", "<", "b", " ", " ">> },
        n \in 0..MaxWords }

(***************************************************************************)
(* format_news_message.  A message is modelled by its opening text and its   *)
(* entries; the emoji, the date, the link and the hashtags are left out.     *)
(***************************************************************************)
\* the characters of a text: its sentences, one blank apart
ContentText(text) == join(<<" ">>, [k \in 1..Len(text) |-> SentText(text[k])])

\* line 100: articles[:5]
ShownAll(articles) == articles
shown_articles(articles) == SubSeq(articles, 1, Min(Len(articles), MaxEntries))

\* line 107: summary[:150]
summary_slice(summary) == SubSeq(summary, 1, Min(Len(summary), SummaryChars))

\* lines 100-111: one pass of the loop: the entry of `article`, numbered
\* `index`, in a message of `shown` entries
format_entry(index, article, shown) ==
    [index |-> index,
     title |-> article.title,
     source |-> article.source,
     reading_time |-> calculate_reading_time(ContentText(article.content)),
     summary |-> summary_slice(summarize_text(article.content, DefaultSentences)),
     separator |-> index < shown]

\* lines 91-118
format_news_message(articles) ==
    IF articles = <<>>
    THEN [text |-> "No relevant AI news found at the moment.", entries |-> <<>>]
    ELSE LET shown == shown_articles(articles)
         IN  [text |-> "AI News Roundup",
              entries |-> [i \in 1..Len(shown) |->
                              format_entry(i, shown[i], Len(shown))]]

\* the articles format_news_message is called with: a short content, and one
\* whose summary is longer than 150 characters
LongSentence == [j \in 1..40 |-> <<"d", "a", "t", "a">>]

FormatArticles ==
    { [source |-> "Forbes",
       title |-> <<"a", "i">>,
       content |-> << << <<"m", "l">>, <<".">> >> >>],
      [source |-> "Wired",
       title |-> <<"A", "I">>,
       content |-> << << <<"t", "h", "e">>, <<".">> >>, LongSentence >>] }

FormatLists == UNION { [1..n -> FormatArticles] : n \in 0..MaxDigest }

\* lines 122-125: `if news_articles:` is false for None and for []
get_ai_news_result(fetched) ==
    IF fetched.kind = "list" /\ fetched.articles # <<>>
    THEN format_news_message(fetched.articles)
    ELSE [text |-> "Sorry, I couldn't fetch any news at the moment. Please try again later.",
          entries |-> <<>>]

\* lines 149-150: what send_telegram_message does with an exception of
\* session.post: `except Exception` logs it; a non-200 reply is logged too
send_telegram_message_exit(resp) == "returned"

\* lines 155, 121, 29-51: main calls get_ai_news, which calls fetch_ai_news; the
\* news API replies `reply`, with `articles` as data['articles']
fetch_ai_news(reply, articles) ==
    /\ program = "news_bot"
    /\ pc = "get_ai_news"
    /\ fetchRequests' = fetchRequests + 1
    /\ data' = articles
    /\ news_articles' = fetch_ai_news_result(reply, articles)
    /\ IF news_articles'.kind = "raised"
       THEN \* neither get_ai_news nor main handles it: asyncio.run re-raises
            /\ pc' = "crashed"
            /\ unhandled' = "fetch_ai_news"
       ELSE /\ pc' = "format"
            /\ unhandled' = unhandled
    /\ UNCHANGED <<program, relayVars, request, lastResp, ret, news_message,
                   sendRequests,
                   configVars, callVars>>

\* lines 122-125: the rest of get_ai_news
get_ai_news ==
    /\ program = "news_bot"
    /\ pc = "format"
    /\ news_message' = get_ai_news_result(news_articles)
    /\ pc' = "send_telegram_message"
    /\ UNCHANGED <<program, unhandled, relayVars, request, lastResp, ret, data,
                   news_articles, sendRequests, fetchRequests,
                   configVars, callVars>>

\* lines 156, 127-150: main calls send_telegram_message(news_message) and the
\* Telegram API replies `resp`
send_telegram_message(resp) ==
    /\ program = "news_bot"
    /\ pc = "send_telegram_message"
    /\ sendRequests' = sendRequests + 1
    /\ request' = [method |-> "sendMessage", photo |-> 0]
    /\ lastResp' = resp
    /\ IF send_telegram_message_exit(resp) = "returned"
       THEN /\ ret' = "None"
            /\ pc' = "done"
            /\ unhandled' = unhandled
       ELSE /\ ret' = "raised"
            /\ pc' = "crashed"
            /\ unhandled' = "send_telegram_message"
    /\ UNCHANGED <<program, relayVars, data, news_articles, news_message, fetchRequests,
                   configVars, callVars>>

RelayInit ==
    /\ published = 0
    /\ last_tweet_id = None
    /\ tweets = <<>>
    /\ idx = 1
    /\ outcome = [i \in Ids |-> "unfetched"]
    /\ sentCount = [i \in Ids |-> 0]
    /\ attempts = <<>>
    /\ sentMedia = <<>>
    /\ issued = <<>>

DigestInit ==
    /\ data = <<>>
    /\ news_articles = [kind |-> "unset", articles |-> <<>>]
    /\ news_message = [text |-> "unset", entries |-> <<>>]
    /\ sendRequests = 0
    /\ fetchRequests = 0

\* news_bot.py lines 21-27 with every environment variable set
ConfigInit ==
    /\ allowed_sources = ALLOWED_SOURCES
    /\ keywords = KEYWORDS
    /\ missing = {}

\* no pure function is being called on its own
NoCall ==
    /\ args = <<>>
    /\ result = <<>>

Init ==
    /\ program \in {"X_post_forward", "news_bot"}
    /\ pc = IF program = "X_post_forward" THEN "get_tweets" ELSE "get_ai_news"
    /\ unhandled = "none"
    /\ request = NoRequest
    /\ lastResp = "none"
    /\ ret = "none"
    /\ RelayInit
    /\ DigestInit
    /\ ConfigInit
    /\ NoCall

RelayNext ==
    \/ Publish
    \/ get_tweets_returns(user_timeline(last_tweet_id, Count))
    \/ get_tweets_raises
    \/ \E media \in MediaLists, resp \in DestResponses : send_to_telegram(media, resp)
    \/ main_sleep
    \/ main_wake

\* lines 21, 32: without NEWS_API_KEY the request carries apiKey=None, which
\* the news API refuses
NewsRepliesHere ==
    IF "NEWS_API_KEY" \in missing
    THEN {"http error", "network exception"}
    ELSE NewsReplies

\* lines 22-23, 128-130: without the bot token or the channel the Telegram API
\* accepts no message
DigestDestResponses ==
    IF missing \cap {"TELEGRAM_BOT_TOKEN", "TELEGRAM_CHANNEL"} # {}
    THEN DestResponses \ {"ok"}
    ELSE DestResponses

DigestNext ==
    \/ /\ pc = "get_ai_news"
       /\ \E reply \in NewsRepliesHere :
            \E articles \in (IF reply = "articles" THEN ArticleLists ELSE {<<>>}) :
                fetch_ai_news(reply, articles)
    \/ get_ai_news
    \/ \E resp \in DigestDestResponses : send_telegram_message(resp)

Next == RelayNext \/ DigestNext

Spec == Init /\ [][Next]_vars
\* the source may also replay tweets it has already returned
ReplayNext ==
    \/ Next
    \/ \E batch \in ReplayedBatches : get_tweets_returns(batch)

SpecReplay == Init /\ [][ReplayNext]_vars

\* news_bot.py started with any configuration: each of the two lists as
\* shipped or empty, and at most one environment variable unset
EnvNames == {"NEWS_API_KEY", "TELEGRAM_BOT_TOKEN", "TELEGRAM_CHANNEL"}

InitConfig ==
    /\ program = "news_bot"
    /\ pc = "get_ai_news"
    /\ unhandled = "none"
    /\ request = NoRequest
    /\ lastResp = "none"
    /\ ret = "none"
    /\ RelayInit
    /\ DigestInit
    /\ allowed_sources \in {<<>>, ALLOWED_SOURCES}
    /\ keywords \in {<<>>, KEYWORDS}
    /\ missing \in {{}} \cup {{e} : e \in EnvNames}
    /\ NoCall

SpecConfig == InitConfig /\ [][DigestNext]_vars

\* a call of summarize_text(text, num_sentences) returns
call_summarize_text ==
    /\ program = "summarize_text"
    /\ pc = "call"
    /\ result' = summarize_text(args.text, args.num_sentences)
    /\ pc' = "returned"
    /\ UNCHANGED <<program, unhandled, relayVars, request, lastResp, ret, digestVars,
                   configVars, args>>

\* a call of calculate_reading_time(content) returns
call_calculate_reading_time ==
    /\ program = "calculate_reading_time"
    /\ pc = "call"
    /\ result' = calculate_reading_time(args.content)
    /\ pc' = "returned"
    /\ UNCHANGED <<program, unhandled, relayVars, request, lastResp, ret, digestVars,
                   configVars, args>>

\* a call of format_news_message(articles) returns
call_format_news_message ==
    /\ program = "format_news_message"
    /\ pc = "call"
    /\ result' = format_news_message(args.articles)
    /\ pc' = "returned"
    /\ UNCHANGED <<program, unhandled, relayVars, request, lastResp, ret, digestVars,
                   configVars, args>>

\* one of the pure functions of news_bot.py is called on its own
InitCalls ==
    /\ program \in {"summarize_text", "calculate_reading_time", "format_news_message"}
    /\ pc = "call"
    /\ unhandled = "none"
    /\ request = NoRequest
    /\ lastResp = "none"
    /\ ret = "none"
    /\ RelayInit
    /\ DigestInit
    /\ ConfigInit
    /\ result = <<>>
    /\ program = "summarize_text" =>
          args \in [text : Texts, num_sentences : 1..MaxSentences]
    /\ program = "calculate_reading_time" =>
          args \in [content : Contents]
    /\ program = "format_news_message" =>
          args \in [articles : FormatLists]

CallsNext ==
    \/ call_summarize_text
    \/ call_calculate_reading_time
    \/ call_format_news_message

SpecCalls == InitCalls /\ [][CallsNext]_vars

\* the loop keeps running, and a fetch or a send that can succeed again and
\* again does succeed at some point
FairSpec ==
    /\ Spec
    /\ WF_vars(main_sleep)
    /\ WF_vars(main_wake)
    /\ SF_vars(get_tweets_returns(user_timeline(last_tweet_id, Count)))
    /\ SF_vars(\E media \in MediaLists : send_to_telegram(media, "ok"))

(***************************************************************************)
(* Properties                                                              *)
(***************************************************************************)
Relay == program = "X_post_forward"
Digest == program = "news_bot"

InBatch(i) == \E k \in 1..Len(tweets) : tweets[k] = i

\* C1: the cursor is at or above a fetched tweet only if that tweet has been
\* sent: every fetched tweet with id <= last_tweet_id has outcome Sent, and no
\* tweet whose send failed has its id at or below last_tweet_id.
C1_CursorOnlyAfterSent ==
    \A i \in Ids :
        (outcome[i] # "unfetched" /\ i <= last_tweet_id) => outcome[i] = "Sent"

\* C2: no tweet is lost: under fair fetching and sending, every tweet on the
\* timeline is eventually sent to the destination.
C2_NoItemLost ==
    \A i \in Ids : (published >= i) ~> (sentCount[i] >= 1)

\* C3: with a source that returns only tweets newer than since_id, the
\* destination accepts at most one send per tweet.
C3_AtMostOnce ==
    \A i \in Ids : sentCount[i] <= 1

\* a tweet was sent in an earlier cycle and a later cycle is delivering a new batch
C3_Witness ==
    /\ Relay
    /\ pc = "for"
    /\ tweets # <<>>
    /\ \E i \in Ids : sentCount[i] = 1 /\ ~InBatch(i) /\ i < tweets[Len(tweets)]

\* C4: with a source that returns only tweets newer than since_id, newest
\* first, last_tweet_id never decreases.
C4_CursorMonotonic ==
    [][last_tweet_id' >= last_tweet_id]_vars

\* the cursor was set by two fetches: the batch at hand starts above a tweet
\* that an earlier fetch returned
C4_Witness ==
    /\ Relay
    /\ tweets # <<>>
    /\ last_tweet_id = tweets[1]
    /\ \E i \in Ids : i < tweets[Len(tweets)] /\ outcome[i] # "unfetched"

\* C5: a fetch that returns a non-empty batch whose ids are all at or below the
\* cursor does not lower the cursor.
C5_ReplaySafe ==
    [][(/\ pc = "get_tweets"
        /\ pc' = "for"
        /\ tweets' # <<>>
        /\ \A k \in 1..Len(tweets') : tweets'[k] <= last_tweet_id)
       => last_tweet_id' >= last_tweet_id]_vars

\* C6: at the end of a cycle every tweet of the batch has been handed to
\* send_to_telegram exactly once, in strictly ascending id order, and the
\* cursor is the highest id of the batch.
C6_CycleOrder ==
    (Relay /\ pc = "sleep") =>
        /\ Len(attempts) = Len(tweets)
        /\ {attempts[k] : k \in 1..Len(attempts)} = {tweets[k] : k \in 1..Len(tweets)}
        /\ \A k \in 1..(Len(attempts) - 1) : attempts[k] < attempts[k + 1]
        /\ tweets # <<>> =>
             /\ \A k \in 1..Len(tweets) : tweets[k] <= last_tweet_id
             /\ InBatch(last_tweet_id)

\* a cycle with a batch of at least two tweets is over
C6_Witness ==
    /\ Relay
    /\ pc = "sleep"
    /\ Len(tweets) >= 2
    /\ Len(attempts) >= 2

\* C7: no fetch failure leaves the fetch operation as an unhandled error: the
\* process never ends in get_tweets or in fetch_ai_news.
C7_FetchNeverEscapes ==
    ~(pc = "crashed" /\ unhandled \in {"get_tweets", "fetch_ai_news"})

\* C8: no failure of a send leaves the delivery operation: both delivery
\* functions return normally whatever the destination replies, the loop hands
\* every tweet of the batch to send_to_telegram before it sleeps, the relay
\* can always take a further step, and the digest ends normally.
C8_DeliveryFailureContained ==
    /\ unhandled \notin {"send_to_telegram", "send_telegram_message"}
    /\ ret # "raised"
    /\ Relay =>
         /\ pc \in {"get_tweets", "for", "sleep"}
         /\ pc = "sleep" => Len(attempts) = Len(tweets)
         /\ ENABLED RelayNext
    /\ (Digest /\ sendRequests > 0) => (pc = "done" /\ ret = "None")

\* a cycle is over in which the send of one tweet failed and a newer tweet of
\* the same batch was sent after it
C8_Witness ==
    /\ Relay
    /\ pc = "sleep"
    /\ \E k \in 1..Len(attempts) :
          /\ outcome[attempts[k]] = "Error"
          /\ \E m \in (k + 1)..Len(attempts) : outcome[attempts[m]] = "Sent"

\* the outcome the delivery operation is said to return for a reply
ClaimedOutcome(resp) ==
    CASE resp = "ok" -> "Sent"
      [] resp = "chat not found" -> "DestinationNotFound"
      [] resp = "not enough rights" -> "PermissionDenied"
      [] resp = "429" -> "RateLimited"
      [] resp = "timeout" -> "TransientError"
      [] OTHER -> "none"

\* C9: the delivery operation returns Sent for a successful send,
\* DestinationNotFound for 'chat not found', PermissionDenied for 'not enough
\* rights', RateLimited for HTTP 429 and TransientError for a timeout.
C9_ClassifiedOutcome ==
    lastResp # "none" => ret = ClaimedOutcome(lastResp)

\* the pairs of an upper-case letter and its lower-case form, either way round
CasePairs ==
    UNION { {<<UpperCase[k], LowerCase[k]>>, <<LowerCase[k], UpperCase[k]>>} :
            k \in 1..Len(UpperCase) }

\* two characters that differ at most in case
FoldEq(a, b) == a = b \/ <<a, b>> \in CasePairs

\* kw occurs in title when case is ignored
OccursIgnoringCase(kw, title) ==
    \E p \in 0..(Len(title) - Len(kw)) :
        \A j \in 1..Len(kw) : FoldEq(title[p + j], kw[j])

Qualifies(article) ==
    /\ article.source \in {ALLOWED_SOURCES[s] : s \in 1..Len(ALLOWED_SOURCES)}
    /\ \E k \in 1..Len(KEYWORDS) : OccursIgnoringCase(KEYWORDS[k], article.title)

\* C10: the list fetch_ai_news returns holds exactly the articles of the reply
\* whose source name is a member of the allow-list and whose title contains a
\* keyword when case is ignored, in the order of the reply.
C10_FilterCorrect ==
    (Digest /\ news_articles.kind = "list") =>
        LET out == news_articles.articles IN
        \E f \in [1..Len(out) -> 1..Len(data)] :
            /\ \A k \in 1..Len(out) : out[k] = data[f[k]]
            /\ \A k \in 1..(Len(out) - 1) : f[k] < f[k + 1]
            /\ {f[k] : k \in 1..Len(out)} = {i \in 1..Len(data) : Qualifies(data[i])}

\* a reply of two articles of which the first is dropped and the second is
\* kept for a keyword that its title holds in another case
C10_Witness ==
    /\ Digest
    /\ news_articles.kind = "list"
    /\ Len(data) = 2
    /\ news_articles.articles = <<data[2]>>
    /\ ~ \E k \in 1..Len(KEYWORDS) : StrIn(KEYWORDS[k], data[2].title)
    /\ data[1].source = "Forbes"

\* the filter as it is said to treat an empty list: every source passes an
\* empty allow-list, every title passes an empty keyword set
ClaimedQualifies(article) ==
    /\ \/ allowed_sources = <<>>
       \/ article.source \in {allowed_sources[s] : s \in 1..Len(allowed_sources)}
    /\ \/ keywords = <<>>
       \/ \E k \in 1..Len(keywords) : OccursIgnoringCase(keywords[k], article.title)

C12_MissingConfigFatal ==
    missing # {} => (fetchRequests = 0 /\ sendRequests = 0)

Summarized == program = "summarize_text" /\ pc = "returned"

NoRepeatedSentence(text) ==
    \A i, j \in 1..Len(text) : text[i] = text[j] => i = j

\* the positions of the n highest-scoring sentences, the earlier one first
\* among equal scores
TopPositions(text, n) ==
    { i \in 1..Len(text) :
        Cardinality({ j \in 1..Len(text) :
            \/ sentence_score(text, text[j]) > sentence_score(text, text[i])
            \/ /\ sentence_score(text, text[j]) = sentence_score(text, text[i])
               /\ j < i }) < n }

\* the sentences at the positions P, in the order of the text, joined by a blank
RECURSIVE JoinedInTextOrder(_, _, _)
JoinedInTextOrder(text, P, from) ==
    IF from > Len(text) THEN <<>>
    ELSE LET rest == JoinedInTextOrder(text, P, from + 1)
         IN  IF from \notin P THEN rest
             ELSE IF rest = <<>> THEN SentText(text[from])
             ELSE SentText(text[from]) \o <<" ">> \o rest

\* C13: summarize_text(text, n) returns the n highest-scoring sentences (ties
\* to the earlier sentence) joined by one blank in the order in which they
\* stand in the text.  Stated for texts whose sentences are all different.
C13_SummaryInTextOrder ==
    (Summarized /\ NoRepeatedSentence(args.text)) =>
        result = JoinedInTextOrder(args.text,
                                   TopPositions(args.text, args.num_sentences), 1)

\* C14: for a text of at most num_sentences sentences summarize_text returns
\* every sentence, once per occurrence, in the order of the text.
C14_ShortTextUnchanged ==
    (Summarized /\ Len(args.text) <= args.num_sentences) =>
        result = JoinedInTextOrder(args.text, 1..Len(args.text), 1)

TimeReturned == program = "calculate_reading_time" /\ pc = "returned"

\* the words of s: the places where a character that is not blank ends a run
WordsIn(s) ==
    Cardinality({ j \in 1..Len(s) : s[j] # " " /\ (j = Len(s) \/ s[j + 1] = " ") })

\* s without its "<" and ">"
KeptChar(c) == c # "<" /\ c # ">"
WithoutBrackets(s) == SelectSeq(s, KeptChar)

\* the reading time said to be returned for w words
ReadingTimeOf(w, r) ==
    /\ w = 0 => r = [n |-> 0, text |-> "< 1 min"]
    /\ (1 <= w /\ w <= 200) => r = [n |-> 0, text |-> "1 min"]
    /\ w > 200 =>
          /\ r.text = "{n} mins"
          /\ 200 * (r.n - 1) < w
          /\ w <= 200 * r.n

\* C15 as stated: with w the whitespace-separated words of the content,
\* calculate_reading_time returns '< 1 min' for w = 0, '1 min' for
\* 1 <= w <= 200 and 'k mins' with k = ceil(w / 200) for w > 200.
C15_ReadingTimeOfContentWords ==
    TimeReturned => ReadingTimeOf(WordsIn(args.content), result)

\* C15 as amended: the same, with w the whitespace-separated words that are
\* left once every "<" and ">" has been deleted from the content.
C15_ReadingTime ==
    TimeReturned => ReadingTimeOf(WordsIn(WithoutBrackets(args.content)), result)

\* a content of 201 words after a tag, which takes '2 mins'
C15_Witness ==
    /\ TimeReturned
    /\ WordsIn(WithoutBrackets(args.content)) = 201
    /\ args.content[1] = "<"
    /\ result = [n |-> 2, text |-> "{n} mins"]

Formatted == program = "format_news_message" /\ pc = "returned"

\* p is s, or the first `cap` characters of a longer s
CutTo(p, s, cap) ==
    /\ Len(p) <= cap
    /\ Len(p) = Len(s) \/ Len(p) = cap
    /\ \A j \in 1..Len(p) : p[j] = s[j]

\* C19: for a non-empty list format_news_message renders min(len, 5) entries:
\* entry i is numbered i and shows article i of the list, a separator follows
\* every entry but the last one rendered, and every summary is the summary of
\* the article's content cut to at most 150 characters.
C19_DigestCap ==
    (Formatted /\ args.articles # <<>>) =>
        LET articles == args.articles
            entries == result.entries
            k == IF Len(articles) < 5 THEN Len(articles) ELSE 5
        IN  /\ Len(entries) = k
            /\ \A i \in 1..Len(entries) :
                  /\ entries[i].index = i
                  /\ entries[i].title = articles[i].title
                  /\ entries[i].source = articles[i].source
                  /\ entries[i].separator <=> (i # k)
                  /\ CutTo(entries[i].summary,
                           summarize_text(articles[i].content, 2), 150)

\* a list of more than five articles was rendered, with a summary that was cut
C19_Witness ==
    /\ Formatted
    /\ Len(args.articles) > 5
    /\ Len(result.entries) = 5
    /\ \E i \in 1..5 :
          /\ Len(result.entries[i].summary) = 150
          /\ Len(summarize_text(args.articles[i].content, 2)) > 150
    /\ args.articles[5] # args.articles[6]

NoNewsText == "No relevant AI news found at the moment."
SorryText == "Sorry, I couldn't fetch any news at the moment. Please try again later."

\* C16: every run of the digest attempts exactly one send, and when the fetch
\* failed or gave no article the text sent is one of the two fixed notices.
C16_OneSendOfFixedNotice ==
    (Digest /\ pc \in {"done", "crashed"}) =>
        /\ sendRequests = 1
        /\ (news_articles.kind # "list" \/ news_articles.articles = <<>>) =>
              news_message.text \in {SorryText, NoNewsText}

\* C20: get_ai_news returns the 'No relevant AI news found' text when the
\* fetch succeeded with no article left by the filter, and the 'Sorry' text
\* only when the fetch failed.
C20_EmptyIsNotFailure ==
    (Digest /\ pc \in {"send_telegram_message", "done"}) =>
        /\ (news_articles.kind = "list" /\ news_articles.articles = <<>>) =>
              news_message.text = NoNewsText
        /\ news_message.text = SorryText => news_articles.kind = "None"

\* send_to_telegram has returned from a call
Delivered == Relay /\ issued # <<>>

C18_EmptyFetchNoEffect ==
    [][ /\ (pc = "get_tweets" /\ pc' = "for" /\ tweets' = <<>>)
            => last_tweet_id' = last_tweet_id
        /\ (Relay /\ pc # "get_tweets" /\ tweets = <<>>)
            => /\ issued' = issued
               /\ sentCount' = sentCount
               /\ attempts' = <<>>
               /\ request' = request ]_vars

\* a cycle with an empty batch is over, with the cursor set by an earlier fetch
C18_Witness ==
    /\ Relay
    /\ pc = "sleep"
    /\ tweets = <<>>
    /\ last_tweet_id # None
=============================================================================
